---- MODULE Spec2Model ----
(***************************************************************************)
(* A model of src/download.py (SECDownload): the business-day calendar,    *)
(* the bulk fetcher and its per-URL retry loop, the Form 4 qualifier and   *)
(* extractor, and the download pipeline that wires them together.          *)
(*                                                                         *)
(* Text is modelled as a sequence of one-character strings.  A line of a   *)
(* filing is a sequence of pieces: an opening tag <n>, a closing tag </n>, *)
(* or a run of text between tags.  A document is a sequence of lines (the  *)
(* result of splitlines), the empty line being the empty sequence.         *)
(***************************************************************************)
EXTENDS Integers, Sequences, FiniteSets, TLC

VARIABLES
  \* _form_qc
  rawtext,    \* the formtext argument: the lines of the document
  formtext,   \* formtext after line 241: the non-empty lines
  pos,        \* index of the line the for loop of line 246 reads next
  nextline,   \* line 242
  label,      \* line 243
  datadict,   \* line 181
  qcpc,       \* "gate", "loop", "done"
  qcresult    \* "none", "absent" (None), "record" (a DataFrame), "ValueError"

qcVars == <<rawtext, formtext, pos, nextline, label, datadict, qcpc, qcresult>>

VARIABLES
  \* _download_thread and the _download_one_threaded call of each url
  urls,       \* the urls argument
  taskpc,     \* per task: "get" (about to GET), "sleep" (in _sleep), "done"
  resp,       \* per task: what the last GET gave (the exception or formtext)
  taskres,    \* per task: what _download_one_threaded returned
  attempts,   \* per task: the GETs issued so far
  order,      \* the tasks in the order they completed
  results,    \* what _download_thread returns
  poolpc      \* "running", "returned"

fetchVars == <<urls, taskpc, resp, taskres, attempts, order, results, poolpc>>

VARIABLES
  \* _date_list_generator
  start, end, weekends, holidays,   \* the arguments
  datelist                          \* what it returned or raised

dateVars == <<start, end, weekends, holidays, datelist>>

VARIABLES
  \* download
  dlstart, dlend, form,   \* the arguments
  dlpc,        \* "dates", "indexes", "parse", "forms", "qc", "done"
  dlurls,      \* urls (lines 35 and 57)
  dlresults,   \* results (lines 41 and 60)
  idxresults,  \* the results of the first batch, kept for reference
  requested,   \* every url a GET was issued for, in order
  raised,      \* the exception download ended with, or "none"
  table        \* the rows of the table download returned

dlVars == <<dlstart, dlend, form, dlpc, dlurls, dlresults, idxresults,
            requested, raised, table>>

vars == <<qcVars, fetchVars, dateVars, dlVars>>

(***************************************************************************)
(* Values                                                                  *)
(***************************************************************************)
\* Python's None
None == [kind |-> "None"]

\* the outcome of a call: not made yet, an exception, a value
NotYet   == [kind |-> "none"]
Raise(e) == [kind |-> "raise", exc |-> e]
Value(v) == [kind |-> "value", val |-> v]

\* the form argument of download: a string, the integer 123, None
StrArg(v) == [type |-> "str", val |-> v]
IntArg    == [type |-> "int", val |-> "123"]
NoneArg   == [type |-> "NoneType", val |-> ""]

(***************************************************************************)
(* Text and markup                                                         *)
(***************************************************************************)
Open(n)  == [k |-> "open",  n |-> n,  s |-> <<>>]
Close(n) == [k |-> "close", n |-> n,  s |-> <<>>]
Text(s)  == [k |-> "text",  n |-> "", s |-> s]

RECURSIVE LStrip(_)
LStrip(s) == IF s # <<>> /\ Head(s) = " " THEN LStrip(Tail(s)) ELSE s

RECURSIVE RStrip(_)
RStrip(s) ==
  IF s # <<>> /\ s[Len(s)] = " " THEN RStrip(SubSeq(s, 1, Len(s) - 1)) ELSE s

\* str.strip(): leading and trailing whitespace removed
Strip(s) == RStrip(LStrip(s))

RECURSIVE TextOf(_)
\* re.sub('<[^>]+>', '', line): the tags removed, the text between them joined
TextOf(line) ==
  IF line = <<>> THEN <<>>
  ELSE (IF Head(line).k = "text" THEN Head(line).s ELSE <<>>) \o TextOf(Tail(line))

\* _re.sub('<[^>]+>', '', line).strip()
StripMarkup(line) == Strip(TextOf(line))

\* '<n>' in line
TagIn(n, line) == \E j \in 1..Len(line) : line[j] = Open(n)

\* '<n>' in formtext
TagInText(n, text) == \E i \in 1..Len(text) : TagIn(n, text[i])

\* '<n>s</n>' in formtext
ElemInText(n, s, text) ==
  \E i \in 1..Len(text) : \E j \in 1..(Len(text[i]) - 2) :
    /\ text[i][j] = Open(n)
    /\ text[i][j + 1] = Text(s)
    /\ text[i][j + 2] = Close(n)

RECURSIVE CountInLine(_, _)
CountInLine(n, line) ==
  IF line = <<>> THEN 0
  ELSE (IF Head(line) = Open(n) THEN 1 ELSE 0) + CountInLine(n, Tail(line))

RECURSIVE CountTag(_, _)
\* formtext.count('<n>')
CountTag(n, text) ==
  IF text = <<>> THEN 0 ELSE CountInLine(n, Head(text)) + CountTag(n, Tail(text))

(***************************************************************************)
(* _form_qc: the tables                                                    *)
(***************************************************************************)
Columns ==
  {"URL", "Date", "Issuer CIK", "Issuer Name", "Issuer Ticker", "Owner CIK",
   "Owner Name", "Director", "Officer", "Ten % Owner", "Officer Title",
   "Transaction Date", "Transaction Code", "Number of Shares",
   "Price per Share", "Shares Owned Following Trans", "Ownership Nature"}

searchlist ==
  {"periodOfReport", "issuerCik", "issuerName", "issuerTradingSymbol",
   "rptOwnerCik", "rptOwnerName", "transactionDate", "transactionShares",
   "transactionPricePerShare", "sharesOwnedFollowingTransaction",
   "directOrIndirectOwnership", "officerTitle", "isTenPercentOwner"}

TrueSpellings == {<<"1">>, <<"T", "r", "u", "e">>, <<"t", "r", "u", "e">>}

\* any(s in formtext for s in refstrings1)
refstrings1(text) ==
  \E n \in {"isDirector", "isOfficer"} : \E s \in TrueSpellings :
    ElemInText(n, s, text)

\* any(p in formtext for p in refstrings2)
refstrings2(text) ==
  \E s \in {<<"S">>, <<"P">>} : ElemInText("transactionCode", s, text)

OneReportingOwner(text) == CountTag("reportingOwner", text) = 1

AtLeastOneNonDerivative(text) == CountTag("nonDerivativeTransaction", text) >= 1

OneNonDerivative(text) == CountTag("nonDerivativeTransaction", text) = 1

AllRequired(text) == \A n \in searchlist : TagInText(n, text)

\* the condition of the if of lines 234-238
Gate(text) ==
  /\ refstrings1(text)
  /\ refstrings2(text)
  /\ OneReportingOwner(text)
  /\ OneNonDerivative(text)
  /\ AllRequired(text)

\* the if statements of the loop body, in the order of lines 254-307:
\* the tag looked for, the column it fills, and whether the value is on the
\* line after the tag line.
FieldTable ==
  << [tag |-> "periodOfReport",      col |-> "Date",             nl |-> FALSE],
     [tag |-> "issuerCik",           col |-> "Issuer CIK",       nl |-> FALSE],
     [tag |-> "issuerName",          col |-> "Issuer Name",      nl |-> FALSE],
     [tag |-> "issuerTradingSymbol", col |-> "Issuer Ticker",    nl |-> FALSE],
     [tag |-> "rptOwnerCik",         col |-> "Owner CIK",        nl |-> FALSE],
     [tag |-> "rptOwnerName",        col |-> "Owner Name",       nl |-> FALSE],
     [tag |-> "isDirector",          col |-> "Director",         nl |-> FALSE],
     [tag |-> "isOfficer",           col |-> "Officer",          nl |-> FALSE],
     [tag |-> "isTenPercentOwner",   col |-> "Ten % Owner",      nl |-> FALSE],
     [tag |-> "officerTitle",        col |-> "Officer Title",    nl |-> FALSE],
     [tag |-> "transactionDate",     col |-> "Transaction Date", nl |-> TRUE],
     [tag |-> "transactionCode",     col |-> "Transaction Code", nl |-> FALSE],
     [tag |-> "transactionShares",   col |-> "Number of Shares", nl |-> TRUE],
     [tag |-> "transactionPricePerShare",
                                     col |-> "Price per Share",  nl |-> TRUE],
     [tag |-> "sharesOwnedFollowingTransaction",
                         col |-> "Shares Owned Following Trans", nl |-> TRUE],
     [tag |-> "directOrIndirectOwnership",
                                     col |-> "Ownership Nature", nl |-> TRUE] >>

\* the condition of the k-th if: the tag is in the line and the column is
\* behind the URL column
FieldFires(k, line, dd) ==
  /\ TagIn(FieldTable[k].tag, line)
  /\ Len(dd["URL"]) # Len(dd[FieldTable[k].col])

\* the first if of the chain whose condition holds (0: none); every if body
\* ends in continue
FirstField(line, dd) ==
  IF \E k \in 1..Len(FieldTable) : FieldFires(k, line, dd)
  THEN CHOOSE k \in 1..Len(FieldTable) :
         /\ FieldFires(k, line, dd)
         /\ \A j \in 1..(k - 1) : ~FieldFires(j, line, dd)
  ELSE 0

\* filter(None, formtext.splitlines())
NonEmptyLines(text) == SelectSeq(text, LAMBDA l : l # <<>>)

\* pd.DataFrame(datadict): columns of unequal length raise ValueError
DataFrameOf(dd) ==
  IF \A c \in Columns : Len(dd[c]) = Len(dd["URL"]) THEN "record" ELSE "ValueError"

\* datadict as line 181 leaves it: every column empty
EmptyDict == [c \in Columns |-> <<>>]

\* the chain of ifs of lines 254-307 on a line
MatchLine(line, st) ==
  LET k == FirstField(line, st.datadict) IN
    IF k = 0 THEN st
    ELSE IF FieldTable[k].nl
    THEN [st EXCEPT !.nextline = TRUE, !.label = FieldTable[k].col]
    ELSE [st EXCEPT !.datadict[FieldTable[k].col] = Append(@, StripMarkup(line))]

\* ScanLine without the continue of line 252: the value line is matched
\* against the tags too
ScanLineNoContinue(line, st) ==
  IF st.nextline
  THEN MatchLine(line,
                 [nextline |-> FALSE,
                  label    |-> "ERROR",
                  datadict |-> [st.datadict EXCEPT
                                  ![st.label] = Append(@, StripMarkup(line))]])
  ELSE MatchLine(line, st)

\* One pass of the body of the for loop of lines 246-307 over `line`, from
\* the scanner state st = [nextline, label, datadict].
ScanLine(line, st) ==
  IF st.nextline
  THEN \* lines 248-252
       [nextline |-> FALSE,
        label    |-> "ERROR",
        datadict |-> [st.datadict EXCEPT
                        ![st.label] = Append(@, StripMarkup(line))]]
  ELSE MatchLine(line, st)

RECURSIVE ScanAll(_, _)
\* the whole for loop
ScanAll(lines, st) ==
  IF lines = <<>> THEN st ELSE ScanAll(Tail(lines), ScanLine(Head(lines), st))

\* _form_qc as a function of the document: what it returns (or raises), and
\* the row it returns
FormQc(text, url) ==
  IF Gate(text)
  THEN LET st == ScanAll(NonEmptyLines(text),
                         [nextline |-> FALSE, label |-> "None",
                          datadict |-> [EmptyDict EXCEPT !["URL"] = <<url>>]])
       IN [result |-> DataFrameOf(st.datadict), datadict |-> st.datadict]
  ELSE [result |-> "absent", datadict |-> EmptyDict]

(***************************************************************************)
(* The documents _form_qc is run on: a well-formed Form 4 with one         *)
(* reporting owner and one non-derivative transaction, and every document  *)
(* that up to MaxEdits line edits (a line removed, two lines joined, a     *)
(* line inserted) make of it.                                              *)
(***************************************************************************)
MaxEdits == 1

Elem(n, s)   == <<Open(n), Text(s), Close(n)>>
TagLine(n)   == <<Open(n)>>
ValueLine(s) == <<Text(<<" ">>), Open("value"), Text(s), Close("value")>>

BaseDoc ==
  << Elem("periodOfReport", <<"d", "0">>),
     Elem("issuerCik", <<"c", "1">>),
     Elem("issuerName", <<"A", " ", "B">>),
     Elem("issuerTradingSymbol", <<"A", "B">>),
     TagLine("reportingOwner"),
     Elem("rptOwnerCik", <<"c", "2">>),
     Elem("rptOwnerName", <<"J", "D">>),
     Elem("isDirector", <<"1">>),
     Elem("isOfficer", <<"0">>),
     Elem("isTenPercentOwner", <<"0">>),
     Elem("officerTitle", <<"C", "E", "O">>),
     TagLine("nonDerivativeTransaction"),
     TagLine("transactionDate"),
     ValueLine(<<"d", "1">>),
     Elem("transactionCode", <<"S">>),
     TagLine("transactionShares"),
     ValueLine(<<"5">>),
     TagLine("transactionPricePerShare"),
     ValueLine(<<"9">>),
     TagLine("sharesOwnedFollowingTransaction"),
     ValueLine(<<"7">>),
     TagLine("directOrIndirectOwnership"),
     ValueLine(<<"D">>) >>

ExtraLines ==
  { <<>>,
    <<Text(<<" ">>)>>,
    Elem("transactionCode", <<"P">>),
    Elem("transactionCode", <<"A">>),
    Elem("isOfficer", <<"t", "r", "u", "e">>),
    Elem("issuerCik", <<"c", "3">>),
    TagLine("nonDerivativeTransaction"),
    TagLine("reportingOwner"),
    TagLine("transactionDate"),
    TagLine("transactionShares"),
    ValueLine(<<"8">>) }

DeleteLine(d, k) == SubSeq(d, 1, k - 1) \o SubSeq(d, k + 1, Len(d))
JoinLines(d, k)  ==
  SubSeq(d, 1, k - 1) \o <<d[k] \o d[k + 1]>> \o SubSeq(d, k + 2, Len(d))
InsertLine(d, k, l) == SubSeq(d, 1, k - 1) \o <<l>> \o SubSeq(d, k, Len(d))

\* One edit of a document: "none", or a line removed, joined to the next
\* line, or inserted; an edit that does not fit the document changes nothing.
EditOps ==
  {[op |-> "none", k |-> 0, l |-> <<>>]}
    \cup {[op |-> o, k |-> k, l |-> <<>>] :
             o \in {"delete", "join"}, k \in 1..(Len(BaseDoc) + MaxEdits)}
    \cup {[op |-> "insert", k |-> k, l |-> l] :
             k \in 1..(Len(BaseDoc) + MaxEdits), l \in ExtraLines}

ApplyEdit(d, e) ==
  CASE e.op = "delete" /\ e.k <= Len(d)     -> DeleteLine(d, e.k)
    [] e.op = "join"   /\ e.k < Len(d)      -> JoinLines(d, e.k)
    [] e.op = "insert" /\ e.k <= Len(d) + 1 -> InsertLine(d, e.k, e.l)
    [] OTHER -> d

RECURSIVE ApplyEdits(_, _)
ApplyEdits(d, es) ==
  IF es = <<>> THEN d ELSE ApplyEdits(ApplyEdit(d, Head(es)), Tail(es))

FilingUrl == "f1"

(***************************************************************************)
(* _form_qc, line by line                                                  *)
(***************************************************************************)
QcInit ==
  /\ \E es \in [1..MaxEdits -> EditOps] : rawtext = ApplyEdits(BaseDoc, es)
  /\ formtext = <<>>
  /\ pos = 0
  /\ nextline = FALSE
  /\ label = "None"
  /\ datadict = EmptyDict
  /\ qcpc = "gate"
  /\ qcresult = "none"
  \* the other operations are at rest
  /\ urls = <<>>
  /\ taskpc = <<>>
  /\ resp = <<>>
  /\ taskres = <<>>
  /\ attempts = <<>>
  /\ order = <<>>
  /\ results = <<>>
  /\ poolpc = "idle"
  /\ start = 0
  /\ end = 0
  /\ weekends = FALSE
  /\ holidays = FALSE
  /\ datelist = NotYet
  /\ dlstart = 0
  /\ dlend = 0
  /\ form = NoneArg
  /\ dlpc = "idle"
  /\ dlurls = <<>>
  /\ dlresults = <<>>
  /\ idxresults = <<>>
  /\ requested = <<>>
  /\ raised = "none"
  /\ table = <<>>

\* lines 234-244 and 308-309: the gate; a document that passes is split
\* into its non-empty lines and its URL recorded
QcGate ==
  /\ qcpc = "gate"
  /\ IF Gate(rawtext)
     THEN /\ formtext' = NonEmptyLines(rawtext)
          /\ nextline' = FALSE
          /\ label' = "None"
          /\ datadict' = [datadict EXCEPT !["URL"] = Append(@, FilingUrl)]
          /\ pos' = 1
          /\ qcpc' = "loop"
          /\ UNCHANGED qcresult
     ELSE /\ qcresult' = "absent"
          /\ qcpc' = "done"
          /\ UNCHANGED <<formtext, nextline, label, datadict, pos>>
  /\ UNCHANGED rawtext
  /\ UNCHANGED <<fetchVars, dateVars, dlVars>>

\* lines 246-307: one iteration of the for loop
QcLine ==
  /\ qcpc = "loop"
  /\ pos <= Len(formtext)
  /\ LET st == ScanLine(formtext[pos],
                        [nextline |-> nextline, label |-> label,
                         datadict |-> datadict])
     IN /\ nextline' = st.nextline
        /\ label' = st.label
        /\ datadict' = st.datadict
  /\ pos' = pos + 1
  /\ UNCHANGED <<rawtext, formtext, qcpc, qcresult>>
  /\ UNCHANGED <<fetchVars, dateVars, dlVars>>

\* line 311: the loop is over, the row is built
QcReturn ==
  /\ qcpc = "loop"
  /\ pos > Len(formtext)
  /\ qcresult' = DataFrameOf(datadict)
  /\ qcpc' = "done"
  /\ UNCHANGED <<rawtext, formtext, pos, nextline, label, datadict>>
  /\ UNCHANGED <<fetchVars, dateVars, dlVars>>

QcNext == QcGate \/ QcLine \/ QcReturn

(***************************************************************************)
(* _download_thread and _download_one_threaded                             *)
(*                                                                         *)
(* A response is a transport error or a body; of a body the model keeps    *)
(* the url it was served for and whether it holds the two marker strings.  *)
(* The pool has 9 workers (line 82) and the lists here are shorter, so     *)
(* every task has a worker from the start; the tasks run in any order.     *)
(***************************************************************************)
MaxUrls == 2
MaxAttempts == 2

Urls == {"u1", "u2"}

TransportError == [kind |-> "error"]
Body(u, rl, ad) == [kind |-> "body", url |-> u, rl |-> rl, ad |-> ad]

\* what a GET of url u can give
Responses(u) ==
  {TransportError} \cup {Body(u, rl, ad) : rl \in BOOLEAN, ad \in BOOLEAN}

\* 'Request Rate Threshold Exceeded' in formtext
RateLimited(r) == r.kind = "body" /\ r.rl
\* 'AccessDenied' in formtext
AccessDenied(r) == r.kind = "body" /\ r.ad

AfterGetDeniedFirst(r) ==
  IF r.kind = "error" THEN [pc |-> "done", ret |-> None]
  ELSE IF AccessDenied(r) THEN [pc |-> "done", ret |-> None]
  ELSE IF RateLimited(r) THEN [pc |-> "sleep", ret |-> None]
  ELSE [pc |-> "done", ret |-> r]

\* lines 98-112: what one pass of the while loop does with the outcome r of
\* the GET: return None on an exception, sleep and go round again on the
\* rate-limit marker, else leave the loop and return None or the body
AfterGet(r) ==
  IF r.kind = "error" THEN [pc |-> "done", ret |-> None]
  ELSE IF RateLimited(r) THEN [pc |-> "sleep", ret |-> None]
  ELSE IF AccessDenied(r) THEN [pc |-> "done", ret |-> None]
  ELSE [pc |-> "done", ret |-> r]

ImapUnordered(res, ord) == [i \in 1..Len(res) |-> res[ord[i]]]

\* pool.imap: the results in the order of the urls, whatever the order the
\* tasks completed in
Imap(res, ord) == res

RECURSIVE ZipKeep(_, _)
\* line 85: [x for x in zip(results, urls) if x[0] is not None]
ZipKeep(res, us) ==
  IF res = <<>> \/ us = <<>> THEN <<>>
  ELSE (IF Head(res) # None THEN <<<<Head(res), Head(us)>>>> ELSE <<>>)
         \o ZipKeep(Tail(res), Tail(us))

FetchInit ==
  /\ \E n \in 0..MaxUrls : urls \in [1..n -> Urls]
  /\ taskpc = [i \in 1..Len(urls) |-> "get"]
  /\ resp = [i \in 1..Len(urls) |-> None]
  /\ taskres = [i \in 1..Len(urls) |-> None]
  /\ attempts = [i \in 1..Len(urls) |-> 0]
  /\ order = <<>>
  /\ results = <<>>
  /\ poolpc = "running"
  \* the other operations are at rest
  /\ rawtext = <<>>
  /\ formtext = <<>>
  /\ pos = 0
  /\ nextline = FALSE
  /\ label = "None"
  /\ datadict = EmptyDict
  /\ qcpc = "idle"
  /\ qcresult = "none"
  /\ start = 0
  /\ end = 0
  /\ weekends = FALSE
  /\ holidays = FALSE
  /\ datelist = NotYet
  /\ dlstart = 0
  /\ dlend = 0
  /\ form = NoneArg
  /\ dlpc = "idle"
  /\ dlurls = <<>>
  /\ dlresults = <<>>
  /\ idxresults = <<>>
  /\ requested = <<>>
  /\ raised = "none"
  /\ table = <<>>

\* lines 99-108: task i issues its GET and acts on the outcome.  The number
\* of rate-limited answers a task gets is capped by MaxAttempts.
Get(i) ==
  /\ poolpc = "running"
  /\ taskpc[i] = "get"
  /\ \E r \in Responses(urls[i]) :
       /\ RateLimited(r) => attempts[i] + 1 < MaxAttempts
       /\ resp' = [resp EXCEPT ![i] = r]
       /\ taskpc' = [taskpc EXCEPT ![i] = AfterGet(r).pc]
       /\ taskres' = [taskres EXCEPT ![i] = AfterGet(r).ret]
       /\ order' = IF AfterGet(r).pc = "done" THEN Append(order, i) ELSE order
  /\ attempts' = [attempts EXCEPT ![i] = @ + 1]
  /\ UNCHANGED <<urls, results, poolpc>>
  /\ UNCHANGED <<qcVars, dateVars, dlVars>>

\* line 106: _sleep(630) is over, the loop goes round
Wake(i) ==
  /\ poolpc = "running"
  /\ taskpc[i] = "sleep"
  /\ taskpc' = [taskpc EXCEPT ![i] = "get"]
  /\ UNCHANGED <<urls, resp, taskres, attempts, order, results, poolpc>>
  /\ UNCHANGED <<qcVars, dateVars, dlVars>>

\* lines 83-89: every task is done; the results are zipped with the urls
Collect ==
  /\ poolpc = "running"
  /\ \A i \in 1..Len(urls) : taskpc[i] = "done"
  /\ results' = ZipKeep(Imap(taskres, order), urls)
  /\ poolpc' = "returned"
  /\ UNCHANGED <<urls, taskpc, resp, taskres, attempts, order>>
  /\ UNCHANGED <<qcVars, dateVars, dlVars>>

FetchNext ==
  \/ \E i \in 1..Len(urls) : Get(i)
  \/ \E i \in 1..Len(urls) : Wake(i)
  \/ Collect

(***************************************************************************)
(* _date_list_generator                                                    *)
(*                                                                         *)
(* A date is a day number; day 0 is a Monday.  The holiday calendar is a   *)
(* fixed set of days: day 2 and day 9 (two Wednesdays, as 2019-12-25 and   *)
(* 2020-01-01 are when day 0 is 2019-12-23).  The calendar's holidays are  *)
(* observed on working days.                                               *)
(***************************************************************************)
MaxDay == 9

Days == 0..MaxDay
Holidays == {2, 9}

IsWeekend(d) == d % 7 \in {5, 6}

\* pd.date_range(start, end): every day of [start, end], ascending
date_range(s, e) == [i \in 1..(IF e >= s THEN e - s + 1 ELSE 0) |-> s + i - 1]

\* pd.bdate_range(start, end): the days of [start, end] from Monday to Friday
bdate_range(s, e) == SelectSeq(date_range(s, e), LAMBDA d : ~IsWeekend(d))


\* lines 132-142: the outcomes of _date_list_generator.  The holidays
\* argument is overwritten at line 137 before it is read; the holiday filter
\* runs when weekends is false.  With weekends false and no working day in
\* the range, daterange.min() is NaT and the holiday calendar is asked for
\* the holidays between NaT and NaT: the library may raise or give none.
DateListGenerator(s, e, w, h) ==
  LET daterange == IF w THEN date_range(s, e) ELSE bdate_range(s, e)
  IN  IF ~w
      THEN IF daterange = <<>>
           THEN {Value(<<>>), Raise("CalendarError")}
           ELSE {Value(SelectSeq(daterange, LAMBDA d : d \notin Holidays))}
      ELSE {Value(daterange)}

DateInit ==
  /\ start \in Days
  /\ end \in Days
  /\ start <= end
  /\ weekends \in BOOLEAN
  /\ holidays \in BOOLEAN
  /\ datelist = NotYet
  \* the other operations are at rest
  /\ rawtext = <<>>
  /\ formtext = <<>>
  /\ pos = 0
  /\ nextline = FALSE
  /\ label = "None"
  /\ datadict = EmptyDict
  /\ qcpc = "idle"
  /\ qcresult = "none"
  /\ urls = <<>>
  /\ taskpc = <<>>
  /\ resp = <<>>
  /\ taskres = <<>>
  /\ attempts = <<>>
  /\ order = <<>>
  /\ results = <<>>
  /\ poolpc = "idle"
  /\ dlstart = 0
  /\ dlend = 0
  /\ form = NoneArg
  /\ dlpc = "idle"
  /\ dlurls = <<>>
  /\ dlresults = <<>>
  /\ idxresults = <<>>
  /\ requested = <<>>
  /\ raised = "none"
  /\ table = <<>>

Generate ==
  /\ datelist = NotYet
  /\ datelist' \in DateListGenerator(start, end, weekends, holidays)
  /\ UNCHANGED <<start, end, weekends, holidays>>
  /\ UNCHANGED <<qcVars, fetchVars, dlVars>>

(***************************************************************************)
(* download                                                                *)
(*                                                                         *)
(* An index document is a sequence of lines, a line the sequence of the    *)
(* tokens that splitting on three spaces, stripping and dropping the empty *)
(* tokens leave.  The documents served here are well formed: 11 header     *)
(* lines, then rows of five tokens.                                        *)
(***************************************************************************)
DlMaxDay == 3

HeaderLines == 11

IndexUrl(d) == [kind |-> "index", date |-> d, file |-> ""]
\* 'https://www.sec.gov/Archives/' + x
FilingUrlOf(x) == [kind |-> "filing", date |-> 0, file |-> x]

IdxHeader == [i \in 1..HeaderLines |-> <<"header">>]
IdxRow(ft, fn) == <<"Company", ft, "0001", "20191223", fn>>

IndexDocs ==
  { IdxHeader,
    IdxHeader \o <<IdxRow("4", "a.txt")>>,
    IdxHeader \o <<IdxRow("4", "b.txt"), IdxRow("8-K", "c.txt")>> }

\* the document behind each file name: a.txt qualifies, b.txt has no
\* non-derivative transaction, c.txt has no <isOfficer> line
FilingDoc(fn) ==
  CASE fn = "a.txt" -> BaseDoc
    [] fn = "b.txt" -> DeleteLine(BaseDoc, 12)
    [] OTHER        -> DeleteLine(BaseDoc, 9)

\* the text of a page that was fetched
Page(text) == [kind |-> "page", text |-> text]

\* lines 152-160: _idx_to_dataframe, the rows of the frame
IdxToDataframe(idx, idx_url) ==
  [i \in 1..(IF Len(idx) > HeaderLines THEN Len(idx) - HeaderLines ELSE 0) |->
     LET y == idx[i + HeaderLines] IN
       [company_name |-> y[1], form_type |-> y[2], cik |-> y[3],
        date_filed |-> y[4], file_name |-> y[5], idx_name |-> idx_url]]

RECURSIVE Concat(_)
Concat(dfs) == IF dfs = <<>> THEN <<>> ELSE Head(dfs) \o Concat(Tail(dfs))

\* line 168: _append_dataframes; dfs[0] of an empty list raises IndexError
AppendDataframes(dfs) ==
  IF dfs = <<>> THEN Raise("IndexError") ELSE Value(Concat(dfs))


FormArgs == {StrArg("4"), StrArg("8-K"), StrArg(""), NoneArg, IntArg}

\* if form: (a non-empty string, a non-zero number)
Truthy(f) == f.type = "int" \/ (f.type = "str" /\ f.val # "")

FormMatchesAny(row, f) == TRUE

\* df['form_type'] == form, for one row
FormMatches(row, f) == f.type = "str" /\ row.form_type = f.val

\* lines 44-57: from the results of the index batch to the filing urls
IndexStage(res, f) ==
  LET dfs == [i \in 1..Len(res) |-> IdxToDataframe(res[i][1].text, res[i][2])]
      df  == AppendDataframes(dfs)
  IN  IF df.kind = "raise" THEN df
      ELSE IF Truthy(f) /\ f.type # "str" THEN Raise("TypeError")
      ELSE LET kept == IF Truthy(f)
                       THEN SelectSeq(df.val, LAMBDA r : FormMatches(r, f))
                       ELSE df.val
           IN Value([i \in 1..Len(kept) |-> FilingUrlOf(kept[i].file_name)])

\* line 320-321: replace({'0': 'false', '1': 'true'})
Replace01(v) ==
  IF v = <<"0">> THEN <<"f", "a", "l", "s", "e">>
  ELSE IF v = <<"1">> THEN <<"t", "r", "u", "e">>
  ELSE v

\* lines 313-322: _clean_download, row by row
CleanDownload(rows) ==
  [i \in 1..Len(rows) |->
     [rows[i] EXCEPT !["Director"] = Replace01(@), !["Officer"] = Replace01(@)]]

\* the one row of the frame _form_qc returned
RowOf(dd) == [c \in Columns |-> dd[c][1]]

\* lines 63-73: from the results of the filing batch to the returned table
FilingStage(res) ==
  LET qc == [i \in 1..Len(res) |-> FormQc(res[i][1].text, res[i][2])]
  IN  IF \E i \in 1..Len(res) : qc[i].result = "ValueError"
      THEN Raise("ValueError")
      ELSE LET kept == SelectSeq(qc, LAMBDA q : q.result = "record")
               dfs  == [i \in 1..Len(kept) |-> <<RowOf(kept[i].datadict)>>]
               df   == AppendDataframes(dfs)
           IN IF df.kind = "raise" THEN df ELSE Value(CleanDownload(df.val))

DlInit ==
  /\ dlstart \in (0..DlMaxDay) \cup {-1}
  /\ dlend \in (0..DlMaxDay) \cup {-1}
  /\ (dlstart # -1 /\ dlend # -1) => dlstart <= dlend
  /\ form \in FormArgs
  /\ dlpc = "dates"
  /\ dlurls = <<>>
  /\ dlresults = <<>>
  /\ idxresults = <<>>
  /\ requested = <<>>
  /\ raised = "none"
  /\ table = <<>>
  \* the other operations are at rest
  /\ rawtext = <<>>
  /\ formtext = <<>>
  /\ pos = 0
  /\ nextline = FALSE
  /\ label = "None"
  /\ datadict = EmptyDict
  /\ qcpc = "idle"
  /\ qcresult = "none"
  /\ urls = <<>>
  /\ taskpc = <<>>
  /\ resp = <<>>
  /\ taskres = <<>>
  /\ attempts = <<>>
  /\ order = <<>>
  /\ results = <<>>
  /\ poolpc = "idle"
  /\ start = 0
  /\ end = 0
  /\ weekends = FALSE
  /\ holidays = FALSE
  /\ datelist = NotYet

\* lines 30-38: the default dates and the index urls.  -1 stands for a date
\* not given, which becomes yesterday, whatever day the call is made on.
DlDates ==
  /\ dlpc = "dates"
  /\ \E yesterday \in 0..DlMaxDay :
     \E r \in DateListGenerator(IF dlstart = -1 THEN yesterday ELSE dlstart,
                                IF dlend = -1 THEN yesterday ELSE dlend,
                                FALSE, FALSE) :
       IF r.kind = "raise"
       THEN /\ raised' = r.exc
            /\ dlpc' = "done"
            /\ UNCHANGED dlurls
       ELSE /\ dlurls' = [i \in 1..Len(r.val) |-> IndexUrl(r.val[i])]
            /\ dlpc' = "indexes"
            /\ UNCHANGED raised
  /\ UNCHANGED <<dlstart, dlend, form, dlresults, idxresults, requested, table>>
  /\ UNCHANGED <<qcVars, fetchVars, dateVars>>

\* line 41: _download_thread(urls) on the index urls; each url gives an
\* index document or nothing
DlFetchIndexes ==
  /\ dlpc = "indexes"
  /\ \E got \in [1..Len(dlurls) -> {Page(d) : d \in IndexDocs} \cup {None}] :
       /\ dlresults' = ZipKeep(got, dlurls)
       /\ idxresults' = ZipKeep(got, dlurls)
  /\ requested' = requested \o dlurls
  /\ dlpc' = "parse"
  /\ UNCHANGED <<dlstart, dlend, form, dlurls, raised, table>>
  /\ UNCHANGED <<qcVars, fetchVars, dateVars>>

\* lines 44-57
DlIndexStage ==
  /\ dlpc = "parse"
  /\ LET r == IndexStage(dlresults, form) IN
       IF r.kind = "raise"
       THEN /\ raised' = r.exc
            /\ dlpc' = "done"
            /\ UNCHANGED dlurls
       ELSE /\ dlurls' = r.val
            /\ dlpc' = "forms"
            /\ UNCHANGED raised
  /\ UNCHANGED <<dlstart, dlend, form, dlresults, idxresults, requested, table>>
  /\ UNCHANGED <<qcVars, fetchVars, dateVars>>

\* line 60: _download_thread(urls) on the filing urls
DlFetchForms ==
  /\ dlpc = "forms"
  /\ \E ok \in [1..Len(dlurls) -> BOOLEAN] :
       dlresults' = ZipKeep([i \in 1..Len(dlurls) |->
                               IF ok[i] THEN Page(FilingDoc(dlurls[i].file))
                               ELSE None],
                            dlurls)
  /\ requested' = requested \o dlurls
  /\ dlpc' = "qc"
  /\ UNCHANGED <<dlstart, dlend, form, dlurls, idxresults, raised, table>>
  /\ UNCHANGED <<qcVars, fetchVars, dateVars>>

\* lines 63-73
DlFilingStage ==
  /\ dlpc = "qc"
  /\ LET r == FilingStage(dlresults) IN
       IF r.kind = "raise"
       THEN /\ raised' = r.exc
            /\ UNCHANGED table
       ELSE /\ table' = r.val
            /\ UNCHANGED raised
  /\ dlpc' = "done"
  /\ UNCHANGED <<dlstart, dlend, form, dlurls, dlresults, idxresults, requested>>
  /\ UNCHANGED <<qcVars, fetchVars, dateVars>>

DlNext == DlDates \/ DlFetchIndexes \/ DlIndexStage \/ DlFetchForms \/ DlFilingStage

DateNext == Generate

(***************************************************************************)
(* The specifications, one per operation                                   *)
(***************************************************************************)
\* _form_qc on one document
SpecExtract == QcInit /\ [][QcNext]_vars

\* _download_thread on one list of urls
SpecFetch == FetchInit /\ [][FetchNext]_vars

\* the same, with the one progress the code itself guarantees: _sleep(630)
\* returns.  (A GET has no timeout and need not return.)
SpecFetchFair ==
  SpecFetch /\ \A i \in 1..MaxUrls : WF_vars(i <= Len(urls) /\ Wake(i))

\* _date_list_generator on one range
SpecDates == DateInit /\ [][DateNext]_vars

\* download
SpecDownload == DlInit /\ [][DlNext]_vars

(***************************************************************************)
(* Properties of _form_qc (SpecExtract)                                    *)
(***************************************************************************)
NextLineColumns == {FieldTable[k].col : k \in {j \in 1..Len(FieldTable) : FieldTable[j].nl}}

\* the two conditions on the flags and the code, the two counts and the
\* required tags, read off the document
FlagTrue(text) ==
  \E n \in {"isDirector", "isOfficer"} :
    \E s \in {<<"1">>, <<"T", "r", "u", "e">>, <<"t", "r", "u", "e">>} :
      ElemInText(n, s, text)
CodeSOrP(text) ==
  ElemInText("transactionCode", <<"S">>, text)
    \/ ElemInText("transactionCode", <<"P">>, text)

\* C5: when _form_qc is through with a document that passed the gate, it
\* returns a record in which each of the 17 columns holds exactly one value.
C5_OneValuePerColumn ==
  (qcpc = "done" /\ qcresult # "absent") =>
    /\ qcresult = "record"
    /\ \A c \in Columns : Len(datadict[c]) = 1

\* C6: a document whose count of <nonDerivativeTransaction> tags is not one
\* gives absent, and a record is returned only if all five conditions of the
\* gate hold.
C6_GateDecides ==
  qcpc = "done" =>
    /\ CountTag("nonDerivativeTransaction", rawtext) # 1 => qcresult = "absent"
    /\ qcresult = "record" =>
         /\ FlagTrue(rawtext)
         /\ CodeSOrP(rawtext)
         /\ CountTag("reportingOwner", rawtext) = 1
         /\ CountTag("nonDerivativeTransaction", rawtext) = 1
         /\ \A n \in searchlist : TagInText(n, rawtext)

\* a document with two <nonDerivativeTransaction> tags and every other
\* condition of the gate true was given absent
C6_Witness ==
  /\ qcpc = "done"
  /\ qcresult = "absent"
  /\ CountTag("nonDerivativeTransaction", rawtext) = 2
  /\ FlagTrue(rawtext)
  /\ CodeSOrP(rawtext)
  /\ CountTag("reportingOwner", rawtext) = 1
  /\ \A n \in searchlist : TagInText(n, rawtext)

\* the text of the element of the first <n> tag of the document
FirstElemText(n, text) ==
  LET i == CHOOSE i \in 1..Len(text) :
             TagIn(n, text[i]) /\ \A h \in 1..(i - 1) : ~TagIn(n, text[h])
      j == CHOOSE j \in 1..Len(text[i]) :
             text[i][j] = Open(n) /\ \A h \in 1..(j - 1) : text[i][h] # Open(n)
  IN  IF j < Len(text[i]) /\ text[i][j + 1].k = "text"
      THEN Strip(text[i][j + 1].s) ELSE <<>>

\* C7: in the record of a document with two <transactionCode> tags the
\* Transaction Code is the value of the first of them.
C7_FirstOccurrenceWins ==
  (qcpc = "done" /\ qcresult = "record"
     /\ CountTag("transactionCode", rawtext) >= 2) =>
    datadict["Transaction Code"] = <<FirstElemText("transactionCode", rawtext)>>

\* the column of a next-line tag of the line, open for a value
EntersOn(line, dd, col) ==
  \E k \in 1..Len(FieldTable) :
    /\ FieldTable[k].nl
    /\ FieldTable[k].col = col
    /\ TagIn(FieldTable[k].tag, line)
    /\ dd[col] = <<>>

C10_Awaiting ==
  (qcpc = "loop" /\ nextline) =>
    /\ pos > 1
    /\ label \in NextLineColumns
    /\ EntersOn(formtext[pos - 1], datadict, label)

\* the place in the document of its i-th non-empty line
NthNonEmpty(text, i) ==
  CHOOSE j \in 1..Len(text) :
    /\ text[j] # <<>>
    /\ Cardinality({h \in 1..j : text[h] # <<>>}) = i

C10_Lines ==
  (qcpc = "loop" /\ pos = 1) =>
    /\ Len(formtext) = Cardinality({j \in 1..Len(rawtext) : rawtext[j] # <<>>})
    /\ \A i \in 1..Len(formtext) : formtext[i] = rawtext[NthNonEmpty(rawtext, i)]

C10_Step ==
  (qcpc = "loop" /\ pos' = pos + 1) =>
    /\ formtext' = formtext
    /\ IF nextline
       THEN /\ ~nextline'
            /\ datadict' = [datadict EXCEPT ![label] = <<StripMarkup(formtext[pos])>>]
       ELSE /\ nextline' =>
                 /\ EntersOn(formtext[pos], datadict, label')
                 /\ datadict' = datadict
            /\ \A c \in NextLineColumns : datadict'[c] = datadict[c]

\* C10: the scan waits for a value only after a line with a next-line tag
\* whose column is empty; it then takes exactly the next non-empty line of
\* the document, stores its stripped text under the remembered label and
\* nothing else, and goes back to matching tags; a next-line column gets a
\* value in no other way.
C10_TwoStateScan ==
  /\ [](C10_Awaiting /\ C10_Lines)
  /\ [][C10_Step]_vars

\* the scan took a line that holds a tag of an unfilled column as the value
\* of the transaction date
C10_Witness ==
  /\ qcpc = "loop"
  /\ pos > 2
  /\ ~nextline
  /\ label = "ERROR"
  /\ TagIn("transactionDate", formtext[pos - 2])
  /\ TagIn("transactionCode", formtext[pos - 1])
  /\ datadict["Transaction Date"] = <<StripMarkup(formtext[pos - 1])>>
  /\ datadict["Transaction Code"] = <<>>

(***************************************************************************)
(* Properties of _download_thread and _download_one_threaded (SpecFetch,    *)
(* SpecFetchFair)                                                          *)
(***************************************************************************)
Tasks == 1..Len(urls)

\* how many times x occurs in the sequence sq
Occurrences(sq, x) == Cardinality({k \in 1..Len(sq) : sq[k] = x})

\* C2: whatever the order the tasks completed in, the list returned holds
\* one pair for each url whose fetch gave content, none for a url whose fetch
\* gave nothing, and the content of a pair is the body served for its url.
C2_PairsMatchUrls ==
  poolpc = "returned" =>
    /\ Len(results) = Cardinality({i \in Tasks : taskres[i] # None})
    /\ \A i \in Tasks :
         taskres[i] # None =>
           Occurrences(results, <<taskres[i], urls[i]>>)
             = Cardinality({j \in Tasks : taskres[j] = taskres[i] /\ urls[j] = urls[i]})
    /\ \A k \in 1..Len(results) :
         /\ results[k][1].kind = "body"
         /\ results[k][1].url = results[k][2]

\* two different urls, the second completed first, both with content
C2_Witness ==
  /\ poolpc = "returned"
  /\ Len(urls) = 2
  /\ urls[1] # urls[2]
  /\ order = <<2, 1>>
  /\ Len(results) = 2

C3_Outcome ==
  \A i \in Tasks :
    /\ taskpc[i] = "done" <=>
         (resp[i].kind = "error" \/ (resp[i].kind = "body" /\ ~resp[i].rl))
    /\ taskpc[i] = "sleep" => (resp[i].kind = "body" /\ resp[i].rl)
    /\ taskres[i] # None =>
         /\ taskpc[i] = "done"
         /\ taskres[i] = resp[i]
         /\ resp[i].kind = "body" /\ ~resp[i].rl /\ ~resp[i].ad
    /\ (taskpc[i] = "done" /\ resp[i].kind = "body" /\ ~resp[i].ad) =>
         taskres[i] = resp[i]

C3_Step ==
  \A i \in Tasks :
    \* a GET is issued only by a task that has not ended, and for its own url
    /\ attempts'[i] # attempts[i] =>
         /\ taskpc[i] = "get"
         /\ attempts'[i] = attempts[i] + 1
         /\ resp'[i] \in Responses(urls[i])
         /\ urls' = urls
    \* after the sleep comes a GET, and nothing else
    /\ taskpc[i] = "sleep" =>
         /\ taskpc'[i] \in {"sleep", "get"}
         /\ attempts'[i] = attempts[i]
    \* a task that has ended stays so, with what it returned
    /\ taskpc[i] = "done" =>
         /\ taskpc'[i] = "done"
         /\ attempts'[i] = attempts[i]
         /\ taskres'[i] = taskres[i]

\* C3: a body with the rate-limit marker is never returned and sends the
\* task to sleep and then to a new GET of the same url; a transport error on
\* any attempt ends the fetch with no result and no further GET; the fetch has
\* ended exactly when its last attempt raised or gave a body without the
\* rate-limit marker, and it gives content only when that body has no
\* access-denied marker either.
C3_RetryProtocol ==
  /\ []C3_Outcome
  /\ [][C3_Step]_vars
  /\ \A i \in 1..MaxUrls :
       (i <= Len(urls) /\ taskpc[i] = "sleep")
         ~> (i <= Len(urls) /\ taskpc[i] = "get")

\* one task gave content on its second GET, another ended on a transport
\* error on its second GET
C3_Witness ==
  \E i, j \in Tasks :
    /\ attempts[i] = 2 /\ taskres[i] # None
    /\ attempts[j] = 2 /\ taskpc[j] = "done" /\ resp[j].kind = "error"

(***************************************************************************)
(* Properties of _date_list_generator (SpecDates)                          *)
(***************************************************************************)
\* C8: the list returned is the days of [start, end] in ascending order,
\* without the Saturdays and Sundays exactly when weekends is false and
\* without the holidays exactly when holidays is false.
C8_FlagsIndependent ==
  datelist.kind = "value" =>
    datelist.val =
      SelectSeq(date_range(start, end),
                LAMBDA d : /\ (weekends \/ ~IsWeekend(d))
                           /\ (holidays \/ d \notin Holidays))

(***************************************************************************)
(* Properties of download (SpecDownload)                                   *)
(***************************************************************************)
BadForm == Truthy(form) /\ form.type # "str"

\* C1: when form is given and is not a string, download raises its type
\* error before any GET.
C1_TypeErrorBeforeNetwork ==
  (BadForm /\ raised = "TypeError") => requested = <<>>

\* C4: urls that fail and filings that do not qualify never make download
\* raise: it ends with a table.
C4_SoftFailuresNotSurfaced ==
  (dlpc = "done" /\ ~BadForm /\ raised # "CalendarError") => raised = "none"

\* the rows parsed from the index documents that were fetched
IndexRows ==
  Concat([i \in 1..Len(idxresults) |->
            IdxToDataframe(idxresults[i][1].text, idxresults[i][2])])

\* the rows whose filing is wanted: all of them without a form, those of
\* the form otherwise
Wanted(row) ==
  ~Truthy(form) \/ (form.type = "str" /\ row.form_type = form.val)

FilingsRequested == SelectSeq(requested, LAMBDA u : u.kind = "filing")

C9_Urls ==
  dlpc \in {"qc", "done"} =>
    /\ Len(FilingsRequested)
         = Cardinality({k \in 1..Len(IndexRows) : Wanted(IndexRows[k])})
    /\ \A k \in 1..Len(IndexRows) :
         Wanted(IndexRows[k]) =>
           Occurrences(FilingsRequested, FilingUrlOf(IndexRows[k].file_name))
             = Cardinality({j \in 1..Len(IndexRows) :
                              /\ Wanted(IndexRows[j])
                              /\ IndexRows[j].file_name = IndexRows[k].file_name})

C9_Batches ==
  /\ FilingsRequested # <<>> => dlpc \in {"qc", "done"}
  /\ dlpc \in {"dates", "indexes"} => idxresults = <<>>
  /\ \A i, j \in 1..Len(requested) :
       (requested[i].kind = "filing" /\ requested[j].kind = "index") => j < i

\* C9: the urls of the second batch are those of the parsed index rows whose
\* form_type equals form (every row when form is falsy), one per row, and no
\* filing url is requested before the index batch has returned.
C9_SecondBatch == C9_Urls /\ C9_Batches

\* form '4' and an index with a form 4 row and a form 8-K row: only the
\* filing of the form 4 row was requested
C9_Witness ==
  /\ dlpc = "done"
  /\ form = StrArg("4")
  /\ \E k \in 1..Len(IndexRows) : IndexRows[k].form_type = "8-K"
  /\ FilingsRequested # <<>>
  /\ Len(FilingsRequested) < Len(IndexRows)
  /\ raised = "none"
  /\ table # <<>>

====
